---- MODULE Spec2Model ----
(***************************************************************************)
(* Model of src/main.py: the staleness-aware content-retrieval pipeline    *)
(* (get_advanced_topic_content, should_fetch_from_api, fetch_api_data,     *)
(* get_engine) and the ranked search (advanced_search).                    *)
(*                                                                         *)
(* Every request is a coroutine of one event loop: an action of this       *)
(* module is the code that runs between two suspension points (awaits on   *)
(* the store, the cache fetches and the two remote clients).               *)
(*                                                                         *)
(* main.py reads four global names it never binds: datetime (lines 54, 68   *)
(* and 138) is not imported, async_engine (line 83) is never assigned, and  *)
(* update_topic_from_api (line 113) and fetch_academic_resources (line 124) *)
(* are defined nowhere - line 106 leaves a placeholder for "other async     *)
(* functions".  Reading an unbound name raises NameError.  The variable     *)
(* bound holds the names of the four that are bound, and every definition   *)
(* does what the code does under that binding.  Init is main.py as it       *)
(* stands, with none of them bound: the import stops at line 54             *)
(* (LoadModule) and no request is served.  InitBound is main.py with some   *)
(* of the names supplied: datetime as the standard module, async_engine as  *)
(* None (the lazily created engine of spec.md 9), the two functions as      *)
(* spec.md 4.2 describes them; what is supplied is marked where it is       *)
(* defined.                                                                 *)
(*                                                                          *)
(* Spec is the pipeline with the store and the cache reachable, SpecFaults *)
(* adds their failures at every call (the release of the connection and    *)
(* the write of the cache included) and bodies of the Enrichment Client    *)
(* that are not the list it should send, SpecEngine is get_engine under    *)
(* startup_event and requests, SpecSearch is the ranked search over a      *)
(* table,                                                                  *)
(* SpecSearchFaults adds the failures of the store under it and SpecRoute  *)
(* is the /advanced_search route over contents around 200 characters.      *)
(* Time is counted in seconds, scores in tenths.                           *)
(***************************************************************************)
EXTENDS Integers, Sequences, FiniteSets, TLC

VARIABLES
    now,          \* datetime.datetime.utcnow(), seconds
    ticks,        \* how many times the clock has advanced
    store,        \* table topics: sector -> row or None
    writes,       \* number of commits to table topics so far
    cache,        \* redis_client: key -> entry or None
    bound,        \* the global names main.py reads, never binds and finds bound
    async_engine, \* the global async_engine
    created,      \* how many times create_async_engine has returned
    startup,      \* position of the process: the import of main.py, startup_event
    req,          \* the coroutines serving POST /get_topic_content
    search        \* the coroutine serving POST /advanced_search

vars == <<now, ticks, store, writes, cache, bound, async_engine, created, startup,
          req, search>>

----------------------------------------------------------------------------
(* Bounds of the model *)

MaxTicks == 1
MaxRows == 11
MaxRouteRows == 3

Tasks == {"t1", "t2"}
Sectors == {"physics"}
Questions == {"q"}

----------------------------------------------------------------------------
(* Program constants *)

Day == 86400
StaleDays == 7
TTL == 3600
Limit == 10
SnippetLen == 200

\* The clock advances by the time to live of a cache entry.
TickSteps == {TTL}
T0 == 20 * Day

----------------------------------------------------------------------------
(* Python values *)

None == [tag |-> "None"]

\* A global name that has no binding yet.
Unbound == [tag |-> "Unbound"]
Str(s) == [tag |-> "str", val |-> s]

\* Serialized text: the JSON encoding of a value, or a text of one line that
\* is not JSON, with what json.loads finds wrong in it and at which character
\* (counted from 0).
JsonText(v) == [tag |-> "json", json |-> v]
NotJsonText(s, msg, pos) == [tag |-> "raw", raw |-> s, msg |-> msg, pos |-> pos]
EmptyText == NotJsonText("", "Expecting value", 0)

JsonDumps(v) == JsonText(v)

\* json.JSONDecodeError(msg, doc, pos)
JSONDecodeError(msg, pos) == [tag |-> "JSONDecodeError", msg |-> msg, pos |-> pos]

JsonLoads(txt) ==
    IF txt.tag = "json" THEN txt.json ELSE JSONDecodeError(txt.msg, txt.pos)

\* bool(x) of an optional text: None and the empty text are falsy.
Truthy(x) == x # None /\ x # EmptyText

----------------------------------------------------------------------------
(* The store (table topics) and the cache (redis_client) *)

\* class Topic: a row of table topics.
Topic(content, further_reading, last_update) ==
    [tag |-> "row", content |-> content, further_reading |-> further_reading,
     last_update |-> last_update]

\* f'api_{sector}' and f'academic_{sector}'
ApiKey(sector) == <<"api", sector>>
AcademicKey(sector) == <<"academic", sector>>
Keys == {ApiKey(s) : s \in Sectors} \cup {AcademicKey(s) : s \in Sectors}

\* redis_client.get(key): an entry past its expiration is absent.
RedisGet(c, key, t) ==
    IF c[key] # None /\ t < c[key].exp THEN c[key].val ELSE None

\* redis_client.setex(key, ttl, value)
RedisSetex(c, key, ttl, value, t) ==
    [c EXCEPT ![key] = [tag |-> "entry", val |-> value, exp |-> t + ttl]]

\* Redis drops the entries whose time to live has run out.
Expire(c, t) == [k \in Keys |-> IF c[k] # None /\ c[k].exp <= t THEN None ELSE c[k]]

----------------------------------------------------------------------------
(* What the two remote services can answer *)

GoodPayload == [content |-> "c1", further_reading |-> "http://x"]
BadSchemaPayload == [detail |-> "unknown sector"]

\* External Refresh Client: status 200 with a JSON document (the body null
\* included, which response.json() gives as None), a transport error
\* (ClientError), another status, a body that is not JSON, or a timeout
\* (asyncio.TimeoutError, which is no ClientError).
RefreshResponses ==
    {[kind |-> "ok", data |-> GoodPayload],
     [kind |-> "ok", data |-> BadSchemaPayload],
     [kind |-> "ok", data |-> None],
     [kind |-> "client_error"], [kind |-> "status"], [kind |-> "bad_json"],
     [kind |-> "timeout"]}

\* What json.loads yields: None (null), an int, a bool, a str (Str), a list
\* of such values and a dict from keys to such values.
IntValue(n) == [tag |-> "int", val |-> n]
BoolValue(b) == [tag |-> "bool", val |-> b]
List(items) == [tag |-> "list", items |-> items]
Object(members) == [tag |-> "dict", members |-> members]

\* type(v).__name__
TypeName(v) == IF v.tag = "None" THEN "NoneType" ELSE v.tag

GoodSummaries ==
    JsonText(List(<<Object([summary |-> Str("s1")]), Object([summary |-> Str("s2")])>>))
NoSummaryItem ==
    JsonText(List(<<Object([summary |-> Str("s1")]), Object([title |-> Str("t2")])>>))
EmptyObjectBody == JsonText(Object(<<>>))
Truncated == NotJsonText("[", "Expecting value", 1)
NullBody == JsonText(None)

\* Enrichment Client: a body (summaries, an item without summary, the empty
\* object, the empty text), or a failure.
EnrichTexts == {GoodSummaries, NoSummaryItem, EmptyObjectBody, EmptyText}
EnrichResponses ==
    {[kind |-> "ok", text |-> x] : x \in EnrichTexts} \cup {[kind |-> "failed"]}

\* Enrichment Client: a body that is not JSON and the body null.
MalformedTexts == {Truncated, NullBody}
MalformedResponses == {[kind |-> "ok", text |-> x] : x \in MalformedTexts}

----------------------------------------------------------------------------
(* Outcomes of a coroutine *)

Returned(v) == [kind |-> "returned", value |-> v]
Raised(e) == [kind |-> "raised", value |-> e]
Pending == [kind |-> "pending"]

NoInfoAnswer == "I'm sorry, I don't have information on that sector."
PlaceholderAnswer == "Answer based on the context"
ErrorPrefix == "An error occurred: "
ErrorAnswer(e) == ErrorPrefix \o e

----------------------------------------------------------------------------
(* The functions of main.py *)

\* timedelta.days: whole days, rounded down.
Days(delta) == delta \div Day

\* The global names main.py reads and never binds: datetime (lines 54, 68 and
\* 138; the module is not imported), async_engine (line 83; no statement
\* assigns it before get_engine runs), update_topic_from_api (line 113) and
\* fetch_academic_resources (line 124), defined nowhere.
Names == {"datetime", "async_engine", "update_topic_from_api",
          "fetch_academic_resources"}

\* str(e) of the NameError raised on reading a global name that is not bound.
NameError(name) == "name '" \o name \o "' is not defined"

\* Line 138 with >= in place of >.
ShouldFetchFromApiInclusive(topic, utcnow, names) ==
    Returned(topic = None \/ Days(utcnow - topic.last_update) >= StaleDays)

\* should_fetch_from_api, lines 135-138, given the row its SELECT returned and
\* the names that are bound: what it returns or raises.  "not topic" decides
\* for a missing row; for a row the right operand is evaluated and reads
\* datetime.
ShouldFetchFromApi(topic, utcnow, names) ==
    IF topic = None THEN Returned(TRUE)
    ELSE IF "datetime" \notin names THEN Raised(NameError("datetime"))
    ELSE Returned(Days(utcnow - topic.last_update) > StaleDays)

\* fetch_api_data with the cache written before the status is looked at.
FetchApiDataCachingFirst(sector, resp, c, t) ==
    CASE resp.kind = "ok" ->
           [out |-> Returned(resp.data),
            cache |-> RedisSetex(c, ApiKey(sector), TTL, JsonDumps(resp.data), t)]
      [] resp.kind \in {"client_error", "status", "bad_json"} ->
           [out |-> Returned(None),
            cache |-> RedisSetex(c, ApiKey(sector), TTL, JsonDumps(None), t)]
      [] resp.kind = "timeout" ->
           [out |-> Raised("TimeoutError"), cache |-> c]

\* fetch_api_data, lines 91-104, given the response of the remote service:
\* what it returns or raises, and the cache it leaves.
FetchApiData(sector, resp, c, t) ==
    CASE resp.kind = "ok" ->
           [out |-> Returned(resp.data),
            cache |-> RedisSetex(c, ApiKey(sector), TTL, JsonDumps(resp.data), t)]
      [] resp.kind \in {"client_error", "status", "bad_json"} ->
           [out |-> Returned(None), cache |-> c]
      [] resp.kind = "timeout" ->
           [out |-> Raised("TimeoutError"), cache |-> c]

\* The exception leaves the function instead of being handled.
Reraise(e) == Raised(e)

\* except Exception, lines 131-133.
ExceptHandler(e) == Returned(<<ErrorAnswer(e), None>>)

\* str(e) of what the release of the connection raises when it fails.
ReleaseError == "connection was closed in the middle of operation"

\* Leaving the block of line 111 by a return or by an exception: the
\* connection is released, and when the release raises, that is what line 131
\* catches.
Leave(out, released) == IF released THEN out ELSE ExceptHandler(ReleaseError)

\* The test of line 117 is missing and line 120 reads topic.content of None.
NotFoundUnchecked == ExceptHandler("'NoneType' object has no attribute 'content'")

\* Line 130 returning no link.
AnsweredNoLink(topic) == Returned(<<PlaceholderAnswer, None>>)

\* return ..., lines 118 and 130.
NotFound == Returned(<<NoInfoAnswer, None>>)
Answered(topic) == Returned(<<PlaceholderAnswer, topic.further_reading>>)

\* context = topic.content, line 120, as its lines.
InitialContext(topic) == <<topic.content>>

\* context += "\n" + "\n".join(summaries), line 127, as its lines.
JoinContext(context, summaries) ==
    context \o (IF summaries = <<>> THEN <<"">> ELSE summaries)

\* str(e) of what json.loads raises on a text of one line that is not JSON:
\* '%s: line %d column %d (char %d)' with the column counted from 1.
JSONDecodeMessage(e) ==
    e.msg \o ": line 1 column " \o ToString(e.pos + 1)
          \o " (char " \o ToString(e.pos) \o ")"

\* str(e) of the TypeError of "for item in academic_data", line 127, over a
\* value that is no list, dict or str.
NotIterableMessage(v) == "'" \o TypeName(v) \o "' object is not iterable"

\* item['summary'], line 127, yields a value.
HasSummary(item) == item.tag = "dict" /\ "summary" \in DOMAIN item.members

\* str(e) of what item['summary'] raises otherwise: KeyError for a dict
\* without the key, TypeError for a str, a list and whatever has no index.
KeyErrorMessage == "'summary'"
TypeErrorMessage == "string indices must be integers, not 'str'"
SubscriptMessage(item) ==
    CASE item.tag = "dict" -> KeyErrorMessage
      [] item.tag = "str" -> TypeErrorMessage
      [] item.tag = "list" -> "list indices must be integers or slices, not str"
      [] OTHER -> "'" \o TypeName(item) \o "' object is not subscriptable"

\* str(e) of the TypeError of "\n".join over a summary that is no str; k
\* counts from 0.
JoinMessage(k, v) ==
    "sequence item " \o ToString(k) \o ": expected str instance, "
        \o TypeName(v) \o " found"

First(S) == CHOOSE i \in S : \A j \in S : i <= j

\* Lines 125-130 for a topic and the enrichment data at hand: the context
\* built and what the function returns.  Iterating a dict yields its keys
\* and iterating a str its characters, each a str; the first item that
\* fails decides the exception, and join runs when every item has a summary.
Enrich(topic, academic_data) ==
    LET unchanged == [context |-> InitialContext(topic), out |-> Answered(topic)]
        failed(e) == [context |-> InitialContext(topic), out |-> ExceptHandler(e)]
        joined(summaries) == [context |-> JoinContext(InitialContext(topic), summaries),
                              out |-> Answered(topic)]
    IN IF ~Truthy(academic_data) THEN unchanged
       ELSE LET parsed == JsonLoads(academic_data) IN
            IF parsed.tag = "JSONDecodeError" THEN failed(JSONDecodeMessage(parsed))
            ELSE IF parsed.tag \in {"None", "int", "bool"}
            THEN failed(NotIterableMessage(parsed))
            ELSE IF parsed.tag = "dict"
            THEN IF DOMAIN parsed.members = {} THEN joined(<<>>)
                 ELSE failed(TypeErrorMessage)
            ELSE IF parsed.tag = "str"
            THEN IF parsed.val = "" THEN joined(<<>>) ELSE failed(TypeErrorMessage)
            ELSE LET items == parsed.items
                     bad == {i \in DOMAIN items : ~HasSummary(items[i])}
                     notstr == {i \in DOMAIN items :
                                   items[i].members.summary.tag # "str"}
                 IN IF bad # {} THEN failed(SubscriptMessage(items[First(bad)]))
                    ELSE IF notstr # {}
                    THEN failed(JoinMessage(First(notstr) - 1,
                                            items[First(notstr)].members.summary))
                    ELSE joined([i \in DOMAIN items |-> items[i].members.summary.val])

\* update_topic_from_api (called at line 113, defined nowhere in main.py),
\* from spec.md 4.2: a document with content and further_reading is a
\* success, anything else fetch_api_data returns or raises is a failed refresh.
RefreshSucceeded(out) ==
    /\ out.kind = "returned"
    /\ out.value # None
    /\ {"content", "further_reading"} \subseteq DOMAIN out.value

\* The row update_topic_from_api writes (spec.md 4.2).
UpsertRow(data, utcnow) == Topic(data.content, Str(data.further_reading), utcnow)

----------------------------------------------------------------------------
(* State *)

Engine(n) == [tag |-> "engine", id |-> n]

\* A coroutine of get_advanced_topic_content: its position (the await it is
\* suspended on), its arguments and locals, and a record of what it did.
IdleTask ==
    [pc |-> "idle", question |-> "", sector |-> "", offline |-> FALSE,
     engine |-> None,      \* engine = await get_engine()
     checked |-> None,     \* the row of the sector when the request first read it
     age |-> -1,           \* utcnow() - last_update at that read, -1 if none
     api |-> Pending,      \* what fetch_api_data returned or raised
     data |-> None,        \* the document a successful refresh fetched
     topic |-> None,       \* topic = await result.fetchone()
     read_at |-> -1,       \* the value of writes at that read, -1 before it
     hit |-> FALSE,        \* redis_client.get(academic_...) was not None
     academic |-> None,    \* academic_data
     context |-> <<>>,     \* context, as lines
     api_calls |-> 0,      \* requests sent to the External Refresh Client
     acad_calls |-> 0,     \* requests sent to the Enrichment Client
     out |-> Pending]      \* what the coroutine returned or raised

\* A coroutine of advanced_search_route: its position (the await it is
\* suspended on), the rows its SELECT yielded, the relevance policy in force
\* and what it returned.
IdleSearch == [pc |-> "idle", query |-> "", policy |-> <<>>, rows |-> <<>>,
               engine |-> None,   \* engine = await get_engine()
               fault |-> FALSE,   \* the store failed under the search
               out |-> Pending,   \* what advanced_search returned or raised
               response |-> <<>>] \* what the route returned

InitialAges == {StaleDays * Day, StaleDays * Day + 1, (StaleDays + 1) * Day}

\* The sector the requests ask for.
KnownSector == "physics"

InitialTopics == {Topic("c0", Str("http://old"), T0 - a) : a \in InitialAges}

\* The tables the pipeline starts with: the sector has a row of one of the
\* ages, or no row.
InitialTables ==
    {[s \in Sectors |-> IF s = KnownSector THEN x ELSE None] :
        x \in InitialTopics \cup {None}}

\* The process about to import main.py, for a table and the names it will
\* find bound.
InitState(names, table) ==
    /\ now = T0
    /\ ticks = 0
    /\ store = table
    /\ writes = 0
    /\ cache = [k \in Keys |-> None]
    /\ bound = names
    /\ async_engine = IF "async_engine" \in names THEN None ELSE Unbound
    /\ created = 0
    /\ startup = "import"
    /\ req = [t \in Tasks |-> IdleTask]
    /\ search = IdleSearch

\* main.py as it stands: none of the names is bound.
Init == \E table \in InitialTables : InitState({}, table)

\* main.py with some or all of the names supplied from outside it: the module
\* datetime, async_engine = None (spec.md 9: the engine is created lazily
\* behind a null check), update_topic_from_api and fetch_academic_resources
\* (spec.md 4.2).
InitBound ==
    \E names \in (SUBSET Names) \ {{}} : \E table \in InitialTables :
        InitState(names, table)

Set(t, r) == req' = [req EXCEPT ![t] = r]

Finish(t, r, out) == Set(t, [r EXCEPT !.pc = "done", !.out = out])

\* Line 112 without its test of offline_mode.
AfterEngineIgnoringOffline(offline) == "select_last_update"

\* Where the coroutine suspends once it holds the engine: lines 111-115.
AfterEngine(offline) == IF offline THEN "select_topic" ELSE "select_last_update"

----------------------------------------------------------------------------
(* get_engine, lines 81-85, and startup_event, lines 87-89 *)

\* main.py is imported, lines 1-170: the body of class Topic reads datetime
\* (line 54), so without it the import raises NameError and no route exists.
LoadModule ==
    /\ startup = "import"
    /\ startup' = IF "datetime" \in bound THEN "start" ELSE "import_failed"
    /\ UNCHANGED <<now, ticks, store, writes, cache, bound, async_engine, created, req,
                   search>>

\* The import has ended and the routes are registered.
Loaded == startup \notin {"import", "import_failed"}

\* startup_event enters get_engine; the NameError of line 83 leaves it.
StartupBegin ==
    /\ startup = "start"
    /\ startup' = IF async_engine = Unbound THEN "raised"
                  ELSE IF async_engine = None THEN "create_engine" ELSE "done"
    /\ UNCHANGED <<search, bound>>
    /\ UNCHANGED <<now, ticks, store, writes, cache, async_engine, created, req>>

\* init_async_db: create_async_engine returns and the global is assigned.
StartupInitDb ==
    /\ startup = "create_engine"
    /\ created' = created + 1
    /\ async_engine' = Engine(created + 1)
    /\ startup' = "done"
    /\ UNCHANGED <<search, bound>>
    /\ UNCHANGED <<now, ticks, store, writes, cache, req>>

\* The coroutines are interchangeable: they are started in the order of Tasks.
Earlier(t) == t = "t1" \/ req["t1"].pc # "idle"

\* POST /get_topic_content, lines 154-159, up to the first suspension of
\* get_advanced_topic_content: get_engine raises NameError when async_engine
\* is not bound (caught at line 131), returns the engine if there is one and
\* awaits init_async_db when it is None.
Request(t, question, sector, offline) ==
    /\ Loaded
    /\ req[t].pc = "idle"
    /\ Earlier(t)
    /\ LET r == [req[t] EXCEPT !.question = question, !.sector = sector,
                               !.offline = offline]
       IN IF async_engine = Unbound
          THEN Finish(t, r, ExceptHandler(NameError("async_engine")))
          ELSE IF async_engine = None
          THEN Set(t, [r EXCEPT !.pc = "create_engine"])
          ELSE Set(t, [r EXCEPT !.pc = AfterEngine(offline), !.engine = async_engine])
    /\ UNCHANGED <<search, bound>>
    /\ UNCHANGED <<now, ticks, store, writes, cache, async_engine, created, startup>>

\* init_async_db inside a request: create_async_engine returns, the global is
\* assigned and get_engine returns it.
InitAsyncDb(t) ==
    /\ req[t].pc = "create_engine"
    /\ created' = created + 1
    /\ async_engine' = Engine(created + 1)
    /\ Set(t, [req[t] EXCEPT !.pc = AfterEngine(req[t].offline),
                             !.engine = Engine(created + 1)])
    /\ UNCHANGED <<search, bound>>
    /\ UNCHANGED <<now, ticks, store, writes, cache, startup>>

----------------------------------------------------------------------------
(* get_advanced_topic_content, lines 108-133 *)

\* Lines 136-137: the SELECT of should_fetch_from_api yields the row of the
\* sector as it is now; the coroutine is suspended on it once more before it
\* goes on to line 138.
SelectLastUpdate(t) ==
    /\ req[t].pc = "select_last_update"
    /\ Set(t, [req[t] EXCEPT !.pc = "should_fetch", !.checked = store[req[t].sector]])
    /\ UNCHANGED <<search, bound>>
    /\ UNCHANGED <<now, ticks, store, writes, cache, async_engine, created, startup>>

\* Lines 138 and 112-113 with a guard that lets one refresh of a sector be in
\* flight at a time: a request that finds one under way goes on to read the
\* row.
ShouldFetchSingleFlight(t, released) ==
    /\ req[t].pc = "should_fetch"
    /\ LET row == req[t].checked
           r == [req[t] EXCEPT !.age = IF row = None THEN -1 ELSE now - row.last_update]
           busy == \E u \in Tasks \ {t} :
                      req[u].pc \in {"fetch_api", "upsert"} /\ req[u].sector = req[t].sector
           decision == ShouldFetchFromApi(row, now, bound)
       IN IF decision.kind = "raised"
          THEN Finish(t, r, Leave(ExceptHandler(decision.value), released))
          ELSE IF ~decision.value \/ busy
          THEN released /\ Set(t, [r EXCEPT !.pc = "select_topic"])
          ELSE IF "update_topic_from_api" \notin bound
          THEN Finish(t, r, Leave(ExceptHandler(NameError("update_topic_from_api")),
                                  released))
          ELSE released /\ Set(t, [r EXCEPT !.pc = "fetch_api", !.api_calls = @ + 1])
    /\ UNCHANGED <<search, bound>>
    /\ UNCHANGED <<now, ticks, store, writes, cache, async_engine, created, startup>>

\* Lines 138 and 112-113: should_fetch_from_api decides on the row it read, by
\* the clock as it is now, or raises; if a refresh is needed line 113 reads
\* the name update_topic_from_api, and where it is bound update_topic_from_api
\* sends the request of fetch_api_data; what is raised leaves the block of
\* line 111 and is caught at line 131.
ShouldFetch(t, released) ==
    /\ req[t].pc = "should_fetch"
    /\ LET row == req[t].checked
           r == [req[t] EXCEPT !.age = IF row = None THEN -1 ELSE now - row.last_update]
           decision == ShouldFetchFromApi(row, now, bound)
       IN IF decision.kind = "raised"
          THEN Finish(t, r, Leave(ExceptHandler(decision.value), released))
          ELSE IF ~decision.value
          THEN released /\ Set(t, [r EXCEPT !.pc = "select_topic"])
          ELSE IF "update_topic_from_api" \notin bound
          THEN Finish(t, r, Leave(ExceptHandler(NameError("update_topic_from_api")),
                                  released))
          ELSE released /\ Set(t, [r EXCEPT !.pc = "fetch_api", !.api_calls = @ + 1])
    /\ UNCHANGED <<search, bound>>
    /\ UNCHANGED <<now, ticks, store, writes, cache, async_engine, created, startup>>

\* Line 113 with one more attempt after a request that failed.
FetchApiRetrying(t, resp) ==
    /\ req[t].pc = "fetch_api"
    /\ LET f == FetchApiData(req[t].sector, resp, cache, now)
           r == [req[t] EXCEPT !.api = f.out]
       IN /\ cache' = f.cache
          /\ IF RefreshSucceeded(f.out)
             THEN Set(t, [r EXCEPT !.pc = "upsert", !.data = f.out.value])
             ELSE IF req[t].api_calls < 2
             THEN Set(t, [r EXCEPT !.api_calls = @ + 1])
             ELSE Set(t, [r EXCEPT !.pc = "select_topic"])
    /\ UNCHANGED <<search, bound>>
    /\ UNCHANGED <<now, ticks, store, writes, async_engine, created, startup>>

\* Line 113: the External Refresh Client answers and fetch_api_data ends; on
\* success update_topic_from_api goes on to write the row.
FetchApi(t, resp) ==
    /\ req[t].pc = "fetch_api"
    /\ LET f == FetchApiData(req[t].sector, resp, cache, now)
           r == [req[t] EXCEPT !.api = f.out]
       IN /\ cache' = f.cache
          /\ IF RefreshSucceeded(f.out)
             THEN Set(t, [r EXCEPT !.pc = "upsert", !.data = f.out.value])
             ELSE Set(t, [r EXCEPT !.pc = "select_topic"])
    /\ UNCHANGED <<search, bound>>
    /\ UNCHANGED <<now, ticks, store, writes, async_engine, created, startup>>

\* A write that replaces the row of a sector by deleting it and inserting the
\* new one, and loses the insert when there was a row.
UpsertDeleteExisting(t) ==
    /\ req[t].pc = "upsert"
    /\ store' = [store EXCEPT ![req[t].sector] =
                    IF @ = None THEN UpsertRow(req[t].data, now) ELSE None]
    /\ writes' = writes + 1
    /\ Set(t, [req[t] EXCEPT !.pc = "select_topic"])
    /\ UNCHANGED <<search, bound>>
    /\ UNCHANGED <<now, ticks, cache, async_engine, created, startup>>

\* update_topic_from_api commits the row (spec.md 4.2).
Upsert(t) ==
    /\ req[t].pc = "upsert"
    /\ store' = [store EXCEPT ![req[t].sector] = UpsertRow(req[t].data, now)]
    /\ writes' = writes + 1
    /\ Set(t, [req[t] EXCEPT !.pc = "select_topic"])
    /\ UNCHANGED <<search, bound>>
    /\ UNCHANGED <<now, ticks, cache, async_engine, created, startup>>

\* The cached entry is fetched again whenever it is falsy.
CacheMissFalsy(academic_data) == ~Truthy(academic_data)

\* if academic_data is None, line 123.
CacheMiss(academic_data) == academic_data = None

\* Lines 115-116: the SELECT yields the row of the sector as it is now; the
\* coroutine is suspended on it once more before it goes on to line 117.
SelectTopic(t) ==
    /\ req[t].pc = "select_topic"
    /\ LET topic == store[req[t].sector]
           r == [req[t] EXCEPT !.pc = "use_topic", !.topic = topic, !.read_at = writes]
       IN IF req[t].offline /\ topic # None
          THEN Set(t, [r EXCEPT !.checked = topic, !.age = now - topic.last_update])
          ELSE Set(t, r)
    /\ UNCHANGED <<search, bound>>
    /\ UNCHANGED <<now, ticks, store, writes, cache, async_engine, created, startup>>

\* Lines 117-130 for the row read: without a row, or offline, or with the
\* enrichment data in the cache as it is now, the function runs to its
\* return; on a cache miss line 124 reads the name fetch_academic_resources,
\* and where it is bound the function awaits it.
UseTopic(t, released) ==
    /\ req[t].pc = "use_topic"
    /\ LET topic == req[t].topic
           r == req[t]
           cached == RedisGet(cache, AcademicKey(req[t].sector), now)
       IN IF topic = None THEN Finish(t, r, Leave(NotFound, released))
          ELSE IF req[t].offline
          THEN Finish(t, [r EXCEPT !.context = InitialContext(topic)],
                      Leave(Answered(topic), released))
          ELSE IF CacheMiss(cached) /\ "fetch_academic_resources" \notin bound
          THEN Finish(t, [r EXCEPT !.context = InitialContext(topic)],
                      Leave(ExceptHandler(NameError("fetch_academic_resources")),
                            released))
          ELSE IF CacheMiss(cached)
          THEN released /\ Set(t, [r EXCEPT !.pc = "fetch_academic",
                                            !.acad_calls = @ + 1,
                                            !.context = InitialContext(topic)])
          ELSE Finish(t, [r EXCEPT !.hit = TRUE, !.academic = cached,
                                   !.context = Enrich(topic, cached).context],
                      Leave(Enrich(topic, cached).out, released))
    /\ UNCHANGED <<search, bound>>
    /\ UNCHANGED <<now, ticks, store, writes, cache, async_engine, created, startup>>

\* fetch_academic_resources (called at line 124, defined nowhere in main.py),
\* from spec.md 4.2: on success the body is cached for TTL and returned, on
\* failure None is returned.
FetchAcademicResources(sector, resp, c, t) ==
    IF resp.kind = "ok"
    THEN [ret |-> resp.text,
          cache |-> RedisSetex(c, AcademicKey(sector), TTL, resp.text, t)]
    ELSE [ret |-> None, cache |-> c]

\* Lines 124-130: the Enrichment Client answers and the function runs to its
\* return.
FetchAcademic(t, resp, released) ==
    /\ req[t].pc = "fetch_academic"
    /\ LET f == FetchAcademicResources(req[t].sector, resp, cache, now)
           e == Enrich(req[t].topic, f.ret)
       IN /\ cache' = f.cache
          /\ Finish(t, [req[t] EXCEPT !.academic = f.ret, !.context = e.context],
                    Leave(e.out, released))
    /\ UNCHANGED <<search, bound>>
    /\ UNCHANGED <<now, ticks, store, writes, async_engine, created, startup>>

----------------------------------------------------------------------------
(* Time *)

Tick(d) ==
    /\ ticks < MaxTicks
    /\ ticks' = ticks + 1
    /\ now' = now + d
    /\ cache' = Expire(cache, now + d)
    /\ UNCHANGED <<search, bound>>
    /\ UNCHANGED <<store, writes, async_engine, created, startup, req>>

----------------------------------------------------------------------------

Next ==
    \/ LoadModule
    \/ \E t \in Tasks, q \in Questions, s \in Sectors, off \in BOOLEAN :
          Request(t, q, s, off)
    \/ \E t \in Tasks : InitAsyncDb(t)
    \/ \E t \in Tasks : SelectLastUpdate(t)
    \/ \E t \in Tasks : ShouldFetch(t, TRUE)
    \/ \E t \in Tasks, resp \in RefreshResponses : FetchApi(t, resp)
    \/ \E t \in Tasks : Upsert(t)
    \/ \E t \in Tasks : SelectTopic(t)
    \/ \E t \in Tasks : UseTopic(t, TRUE)
    \/ \E t \in Tasks, resp \in EnrichResponses : FetchAcademic(t, resp, TRUE)
    \/ \E d \in TickSteps : Tick(d)

\* The pipeline as main.py stands and with names supplied from outside it.
Spec == (Init \/ InitBound) /\ [][Next]_vars

----------------------------------------------------------------------------
(* advanced_search, lines 140-148, and calculate_relevance_score, lines 150-152 *)

Contents == {"a", "b"}
Queries == {"gravity"}

\* Scores are counted in tenths.
Scores == {-2, 0, 5, 8}

\* The policy of main.py, lines 150-152: every topic scores 0.5.
PlaceholderPolicy == [c \in Contents |-> 5]

\* The relevance policies: that of main.py and every other scoring of the
\* contents.
Policies == [Contents -> Scores]

\* calculate_relevance_score under a policy.
CalculateRelevanceScore(policy, query, content, last_update) == policy[content]

\* The i-th sector of a table of topics, in the order a scan yields its rows.
SectorName(i) == "s" \o ToString(i)

\* SELECT sector, content, last_update FROM topics, line 144.
Scan(st) ==
    [i \in 1..Cardinality(DOMAIN st) |->
        [sector |-> SectorName(i), content |-> st[SectorName(i)].content,
         last_update |-> st[SectorName(i)].last_update]]

\* Lines 143-147: the results list, in scan order.
RECURSIVE Collect(_, _, _)
Collect(rows, policy, query) ==
    IF rows = <<>> THEN <<>>
    ELSE LET n == Len(rows)
             topic == rows[n]
             score == CalculateRelevanceScore(policy, query, topic.content,
                                              topic.last_update)
             before == Collect(SubSeq(rows, 1, n - 1), policy, query)
         IN IF score > 0
            THEN Append(before, <<topic.sector, topic.content, score>>)
            ELSE before

\* One more result put into a list sorted with the smallest score first, as
\* sorted without reverse=True does.
InsertAscending(sorted, x) ==
    LET k == Cardinality({i \in DOMAIN sorted : sorted[i][3] <= x[3]})
    IN SubSeq(sorted, 1, k) \o <<x>> \o SubSeq(sorted, k + 1, Len(sorted))

\* One more result put into a list sorted by score, largest first, in front
\* of the results that score as much, as sorting upwards and reversing does.
InsertDescendingBeforeTies(sorted, x) ==
    LET k == Cardinality({i \in DOMAIN sorted : sorted[i][3] > x[3]})
    IN SubSeq(sorted, 1, k) \o <<x>> \o SubSeq(sorted, k + 1, Len(sorted))

\* One more result put into a list sorted by score, largest first, behind the
\* results that score as much.
InsertDescending(sorted, x) ==
    LET k == Cardinality({i \in DOMAIN sorted : sorted[i][3] >= x[3]})
    IN SubSeq(sorted, 1, k) \o <<x>> \o SubSeq(sorted, k + 1, Len(sorted))

\* sorted(results, key=lambda x: x[2], reverse=True), line 148: a stable sort.
RECURSIVE Sorted(_)
Sorted(results) ==
    IF results = <<>> THEN <<>>
    ELSE InsertDescending(Sorted(SubSeq(results, 1, Len(results) - 1)),
                          results[Len(results)])

\* seq[:n]
Slice(seq, n) == SubSeq(seq, 1, IF Len(seq) < n THEN Len(seq) ELSE n)

\* advanced_search for the rows its SELECT yields.
AdvancedSearch(rows, policy, query) == Slice(Sorted(Collect(rows, policy, query)), Limit)

\* Line 167 read as content[:200] + ('...' if len(content) > 200 else content).
SnippetMisgrouped(content) ==
    Slice(content, SnippetLen) \o (IF Len(content) > SnippetLen THEN "..." ELSE content)

\* content[:200] + '...' if len(content) > 200 else content, line 167.
Snippet(content) ==
    IF Len(content) > SnippetLen THEN Slice(content, SnippetLen) \o "..." ELSE content

\* The list the route returns, line 167.
RouteResults(results) ==
    [i \in DOMAIN results |->
        [sector |-> results[i][1], content |-> Snippet(results[i][2]),
         score |-> results[i][3]]]

\* POST /advanced_search, lines 162-165 and 141, up to the first suspension:
\* get_engine raises NameError when async_engine is not bound, and nothing
\* catches it; it returns the engine if there is one and awaits init_async_db
\* when it is None.
SearchBegin(query) ==
    /\ Loaded
    /\ search.pc = "idle"
    /\ search' = IF async_engine = Unbound
                 THEN [search EXCEPT !.pc = "done", !.query = query,
                                     !.out = Raised(NameError("async_engine"))]
                 ELSE IF async_engine = None
                 THEN [search EXCEPT !.pc = "create_engine", !.query = query]
                 ELSE [search EXCEPT !.pc = "acquire", !.query = query,
                                     !.engine = async_engine]
    /\ UNCHANGED <<now, ticks, store, writes, cache, async_engine, created, startup,
                   req, bound>>

\* init_async_db inside the search: create_async_engine returns, the global
\* is assigned and get_engine returns it; the search awaits engine.acquire().
SearchInitDb ==
    /\ search.pc = "create_engine"
    /\ created' = created + 1
    /\ async_engine' = Engine(created + 1)
    /\ search' = [search EXCEPT !.pc = "acquire", !.engine = Engine(created + 1)]
    /\ UNCHANGED <<now, ticks, store, writes, cache, startup, req, bound>>

\* engine.acquire() returns a connection, line 142; the search awaits the
\* SELECT.
SearchAcquire ==
    /\ search.pc = "acquire"
    /\ search' = [search EXCEPT !.pc = "execute"]
    /\ UNCHANGED <<now, ticks, store, writes, cache, async_engine, created, startup,
                   req, bound>>

\* connection.execute returns, line 144: the SELECT yields the rows of the
\* table as it is now; the search awaits their iteration.
SearchExecute ==
    /\ search.pc = "execute"
    /\ search' = [search EXCEPT !.pc = "iterate", !.rows = Scan(store)]
    /\ UNCHANGED <<now, ticks, store, writes, cache, async_engine, created, startup,
                   req, bound>>

\* Lines 144-148 and 166-167: the rows are iterated and scored, advanced_search
\* returns and the route builds its answer.
SearchIterate(policy) ==
    /\ search.pc = "iterate"
    /\ search' = [search EXCEPT
                    !.pc = "done", !.policy = policy,
                    !.out = Returned(AdvancedSearch(search.rows, policy, search.query)),
                    !.response =
                       RouteResults(AdvancedSearch(search.rows, policy, search.query))]
    /\ UNCHANGED <<now, ticks, store, writes, cache, async_engine, created, startup,
                   req, bound>>

\* The table whose i-th row, in scan order, has the i-th of the contents.
TableOf(contents) ==
    [s \in {SectorName(i) : i \in DOMAIN contents} |->
        Topic(contents[CHOOSE i \in DOMAIN contents : SectorName(i) = s],
              Str("http://old"), T0)]

\* The names the search reads.
SearchNames == {"datetime", "async_engine"}

\* A table of up to MaxRows topics, main.py as it stands.
InitSearch ==
    \E n \in 0..MaxRows : \E contents \in [1..n -> Contents] :
        InitState({}, TableOf(contents))

\* The same with names supplied from outside main.py.
InitSearchBound ==
    \E names \in (SUBSET SearchNames) \ {{}} :
        \E n \in 0..MaxRows : \E contents \in [1..n -> Contents] :
            InitState(names, TableOf(contents))

\* The i-th character of the texts below.
Char(i) == SubSeq("abcdefghij", (i % 10) + 1, (i % 10) + 1)

\* The characters a to b in a row.
RECURSIVE Chars(_, _)
Chars(a, b) ==
    IF a > b THEN ""
    ELSE IF a = b THEN Char(a)
    ELSE Chars(a, (a + b) \div 2) \o Chars((a + b) \div 2 + 1, b)

\* A text of n characters.
Text(n) == Chars(1, n)

\* Contents around the length at which line 167 cuts.
RouteContents ==
    {Text(n) : n \in {0, SnippetLen - 1, SnippetLen, SnippetLen + 1, 2 * SnippetLen}}

RoutePolicies == [RouteContents -> {5, 8}]

\* A table of up to MaxRouteRows topics with such contents, main.py as it
\* stands.
InitRoute ==
    \E n \in 0..MaxRouteRows : \E contents \in [1..n -> RouteContents] :
        InitState({}, TableOf(contents))

\* The same with names supplied from outside main.py.
InitRouteBound ==
    \E names \in (SUBSET SearchNames) \ {{}} :
        \E n \in 0..MaxRouteRows : \E contents \in [1..n -> RouteContents] :
            InitState(names, TableOf(contents))

\* The import and the steps of a search up to the iteration of its rows.
SearchToIterate ==
    \/ LoadModule
    \/ \E query \in Queries : SearchBegin(query)
    \/ SearchInitDb
    \/ SearchAcquire
    \/ SearchExecute

NextRoute ==
    \/ SearchToIterate
    \/ \E policy \in RoutePolicies : SearchIterate(policy)

SpecRoute == (InitRoute \/ InitRouteBound) /\ [][NextRoute]_vars

NextSearch ==
    \/ SearchToIterate
    \/ \E policy \in Policies : SearchIterate(policy)

SpecSearch == (InitSearch \/ InitSearchBound) /\ [][NextSearch]_vars

----------------------------------------------------------------------------
(* The store or the cache unavailable: every statement that can fail for it
   stands inside the try of lines 109-130. *)

\* create_async_engine raises inside get_engine, line 110.
CreateEngineFails(t) ==
    /\ req[t].pc = "create_engine"
    /\ Finish(t, req[t], ExceptHandler("could not connect to server"))
    /\ UNCHANGED <<search, bound>>
    /\ UNCHANGED <<now, ticks, store, writes, cache, async_engine, created, startup>>

\* connection.execute or fetchone raises, lines 115-116 and 136-137, inside
\* the block of line 111: the exception leaves through the release of the
\* connection.  engine.acquire() raising at line 111 ends the same way, with
\* no connection to release.
StoreFails(t, released) ==
    /\ req[t].pc \in {"select_last_update", "should_fetch", "select_topic", "use_topic"}
    /\ Finish(t, req[t], Leave(ExceptHandler("connection already closed"), released))
    /\ UNCHANGED <<search, bound>>
    /\ UNCHANGED <<now, ticks, store, writes, cache, async_engine, created, startup>>

\* redis_client.get raises, line 122, after the row was read; the exception
\* leaves through the release of the connection.
CacheFails(t, released) ==
    /\ req[t].pc = "use_topic"
    /\ ~req[t].offline
    /\ req[t].topic # None
    /\ Finish(t, [req[t] EXCEPT !.context = InitialContext(req[t].topic)],
              Leave(ExceptHandler("Error connecting to redis"), released))
    /\ UNCHANGED <<search, bound>>
    /\ UNCHANGED <<now, ticks, store, writes, cache, async_engine, created, startup>>

\* redis_client.setex raises, line 98, after a status 200 and a parsed body:
\* the except of line 102 does not catch it and fetch_api_data raises.
\* update_topic_from_api either takes it for a failed refresh (spec.md 4.2)
\* or lets it go on, through the release of the connection, to line 131.
SetexFails(t, resp, swallowed, released) ==
    /\ req[t].pc = "fetch_api"
    /\ resp.kind = "ok"
    /\ LET r == [req[t] EXCEPT !.api = Raised("Error connecting to redis")]
       IN IF swallowed THEN released /\ Set(t, [r EXCEPT !.pc = "select_topic"])
          ELSE Finish(t, r, Leave(ExceptHandler("Error connecting to redis"), released))
    /\ UNCHANGED <<search, bound>>
    /\ UNCHANGED <<now, ticks, store, writes, cache, async_engine, created, startup>>

\* The store, the engine or the cache fails, the release of the connection
\* fails where the function leaves the block of line 111, or the Enrichment
\* Client answers with a body that is not JSON or with null.
NextFaults ==
    \/ Next
    \/ \E t \in Tasks : CreateEngineFails(t)
    \/ \E t \in Tasks, released \in BOOLEAN : StoreFails(t, released)
    \/ \E t \in Tasks, released \in BOOLEAN : CacheFails(t, released)
    \/ \E t \in Tasks, resp \in RefreshResponses, swallowed, released \in BOOLEAN :
          SetexFails(t, resp, swallowed, released)
    \/ \E t \in Tasks : ShouldFetch(t, FALSE)
    \/ \E t \in Tasks : UseTopic(t, FALSE)
    \/ \E t \in Tasks, resp \in EnrichResponses : FetchAcademic(t, resp, FALSE)
    \/ \E t \in Tasks, resp \in MalformedResponses, released \in BOOLEAN :
          FetchAcademic(t, resp, released)

SpecFaults == (Init \/ InitBound) /\ [][NextFaults]_vars

\* The awaits of advanced_search that reach the store: create_async_engine
\* under get_engine, line 141, engine.acquire(), line 142, the SELECT and the
\* iteration of its rows, line 144.
SearchStages == {"create_engine", "acquire", "execute", "iterate"}

\* The store fails under advanced_search: lines 140-148 and the route, lines
\* 162-167, hold no try, so what the await raises leaves both.
SearchFails ==
    /\ search.pc \in SearchStages
    /\ search' = [search EXCEPT !.pc = "done", !.fault = TRUE,
                                !.out = Raised("OperationalError")]
    /\ UNCHANGED <<now, ticks, store, writes, cache, async_engine, created, startup,
                   req, bound>>

NextSearchFaults ==
    \/ NextSearch
    \/ SearchFails

SpecSearchFaults == (InitSearch \/ InitSearchBound) /\ [][NextSearchFaults]_vars

----------------------------------------------------------------------------
(* get_engine called by startup_event and by requests, lines 81-89 and 110 *)

NextEngine ==
    \/ LoadModule
    \/ StartupBegin
    \/ StartupInitDb
    \/ \E t \in Tasks, q \in Questions, s \in Sectors, off \in BOOLEAN :
          Request(t, q, s, off)
    \/ \E t \in Tasks : InitAsyncDb(t)
    \/ \E query \in Queries : SearchBegin(query)
    \/ SearchInitDb

SpecEngine == (Init \/ InitBound) /\ [][NextEngine]_vars

----------------------------------------------------------------------------
(* Claims *)

\* The steps a suspended coroutine can take.
Resume(t) ==
    \/ InitAsyncDb(t)
    \/ SelectLastUpdate(t)
    \/ ShouldFetch(t, TRUE)
    \/ \E resp \in RefreshResponses : FetchApi(t, resp)
    \/ Upsert(t)
    \/ SelectTopic(t)
    \/ UseTopic(t, TRUE)
    \/ \E resp \in EnrichResponses : FetchAcademic(t, resp, TRUE)

Links == {None, Str("http://old"), Str("http://x")}

\* C1: whatever the store, the cache and the two remote services do, no
\* exception leaves get_advanced_topic_content: a request that has ended has
\* returned a pair (answer text, link or None), and a request that has not
\* ended can always go on.
C1_AlwaysReturnsPair ==
    \A t \in Tasks :
        /\ req[t].out.kind # "raised"
        /\ req[t].pc = "done" =>
              /\ req[t].out.kind = "returned"
              /\ Len(req[t].out.value) = 2
              /\ req[t].out.value[2] \in Links
        /\ req[t].pc \notin {"idle", "done"} => ENABLED Resume(t)

\* One request was given a body that is not JSON by the Enrichment Client and
\* returned the text of the decoder's error; in another one the cache refused
\* the write of line 98 and the request returned that error's text.
C1_Witness ==
    \E t, u \in Tasks :
        /\ req[t].pc = "done"
        /\ req[t].academic = Truncated
        /\ req[t].out.kind = "returned"
        /\ req[t].out.value[1] =
              "An error occurred: Expecting value: line 1 column 2 (char 1)"
        /\ req[t].out.value[2] = None
        /\ req[u].pc = "done"
        /\ req[u].api.kind = "raised"
        /\ req[u].api.value = "Error connecting to redis"
        /\ req[u].out.kind = "returned"
        /\ req[u].out.value[1] = "An error occurred: Error connecting to redis"
        /\ req[u].out.value[2] = None


Done(t) == req[t].pc = "done"

RefreshFailed(t) == req[t].api # Pending /\ ~RefreshSucceeded(req[t].api)

\* C2: a request with offline_mode false for a sector that has no row, whose
\* call of the External Refresh Client failed, returns exactly the fixed
\* "no information" answer with link None, not an error answer.
C2_AbsentAndRefreshFailed ==
    \A t \in Tasks :
        (/\ Done(t)
         /\ ~req[t].offline
         /\ RefreshFailed(t)
         /\ store[req[t].sector] = None)
        => req[t].out =
              Returned(<<"I'm sorry, I don't have information on that sector.", None>>)

\* The refresh of an unknown sector timed out and the request said "no
\* information".
C2_Witness ==
    \E t \in Tasks :
        /\ Done(t)
        /\ ~req[t].offline
        /\ req[t].checked = None
        /\ req[t].api.kind = "raised"
        /\ req[t].api.value = "TimeoutError"
        /\ store[req[t].sector] = None
        /\ req[t].out.value[1] = NoInfoAnswer

\* C3: a request that finds a row whose age is at most 7 days sends nothing to
\* the External Refresh Client, with offline_mode true or false.
C3_FreshTopicNoRefresh ==
    \A t \in Tasks :
        (req[t].checked # None /\ req[t].age <= StaleDays * Day)
        => /\ req[t].api_calls = 0
           /\ req[t].pc # "fetch_api"
           /\ req[t].api = Pending

\* A request with offline_mode false found a row exactly 7 days old and went on
\* to answer without a refresh.
C3_Witness ==
    \E t \in Tasks :
        /\ Done(t)
        /\ ~req[t].offline
        /\ req[t].checked # None
        /\ req[t].age = StaleDays * Day
        /\ req[t].api_calls = 0
        /\ req[t].out.value[1] = PlaceholderAnswer

\* C4: the freshness decision is true exactly when the row is absent or older
\* than 7 days by any amount, one second included: a request with offline_mode
\* false that has taken the decision has sent a call of the External Refresh
\* Client (where update_topic_from_api is there to send it) in exactly these
\* cases.
C4_StaleBeyondSevenDays ==
    \A t \in Tasks :
        (/\ "update_topic_from_api" \in bound
         /\ ~req[t].offline
         /\ req[t].engine # None
         /\ req[t].pc \notin {"idle", "create_engine", "select_last_update",
                               "should_fetch"})
        => ((req[t].api_calls = 1) <=>
               (req[t].checked = None \/ req[t].age > StaleDays * Day))

\* C5: a request with offline_mode true sends nothing to either remote
\* service, and two of them for the same question and sector whose reads of
\* the store have no commit between them return the same pair.
C5_OfflineIdempotent ==
    /\ \A t \in Tasks :
          req[t].offline =>
             /\ req[t].api_calls = 0
             /\ req[t].acad_calls = 0
             /\ req[t].pc \in {"idle", "create_engine", "select_topic", "use_topic",
                              "done"}
    /\ \A t, u \in Tasks :
          (/\ Done(t) /\ Done(u)
           /\ req[t].offline /\ req[u].offline
           /\ req[t].question = req[u].question
           /\ req[t].sector = req[u].sector
           /\ req[t].read_at = req[u].read_at)
          => req[t].out = req[u].out

\* Two requests with offline_mode true for the same stored sector have both
\* answered.
C5_Witness ==
    \E t, u \in Tasks :
        /\ t # u
        /\ Done(t) /\ Done(u)
        /\ req[t].offline /\ req[u].offline
        /\ req[t].sector = req[u].sector
        /\ req[t].read_at = req[u].read_at
        /\ req[t].topic # None
        /\ req[t].out = Returned(<<PlaceholderAnswer, Str("http://old")>>)
        /\ req[u].out = req[t].out

C8_RefreshSucceededVisible ==
    \A t \in Tasks :
        (bound = Names /\ Done(t) /\ RefreshSucceeded(req[t].api))
        => /\ store[req[t].sector] # None
           /\ store[req[t].sector].content = req[t].api.value.content
           /\ store[req[t].sector].further_reading =
                 Str(req[t].api.value.further_reading)
           /\ ticks = 0 =>
                 cache[ApiKey(req[t].sector)] =
                    [tag |-> "entry", val |-> JsonDumps(req[t].api.value),
                     exp |-> now + TTL]
           /\ req[t].out.value[2] = Str(req[t].api.value.further_reading)

\* C9: with every name bound, when the row is stale and the External Refresh
\* Client failed, the request ends on the normal path: answer from the stored
\* content, link the stored further_reading.
C9_StaleRefreshFailedStillAnswers ==
    \A t \in Tasks :
        (/\ bound = Names
         /\ Done(t)
         /\ ~req[t].offline
         /\ req[t].checked # None
         /\ RefreshFailed(t))
        => /\ req[t].topic # None
           /\ req[t].context[1] = req[t].topic.content
           /\ req[t].out = Returned(<<PlaceholderAnswer, req[t].topic.further_reading>>)

\* C10: with every name bound, whatever the Enrichment Client or the cached
\* enrichment data is, a request for a sector with a row returns the normal
\* answer with the row's further_reading as link.
C10_EnrichmentNeverFailsRequest ==
    \A t \in Tasks :
        (bound = Names /\ Done(t) /\ ~req[t].offline /\ req[t].topic # None)
        => req[t].out = Returned(<<PlaceholderAnswer, req[t].topic.further_reading>>)


\* C6: the sequence advanced_search returns has non-increasing scores, holds
\* no score of 0 or less, is at most 10 long, holds only rows of the table
\* with their scores, each once, and leaves out a row with a positive score
\* only when it is full and the row scores no more than its last result.
C6_SearchOrdered ==
    (search.pc = "done" /\ search.out.kind = "returned") =>
        LET L == search.out.value
            Score(row) == search.policy[row.content]
        IN /\ Len(L) <= 10
           /\ \A i \in DOMAIN L : L[i][3] > 0
           /\ \A i, j \in DOMAIN L : i < j => L[i][3] >= L[j][3]
           /\ \A i, j \in DOMAIN L : i # j => L[i][1] # L[j][1]
           /\ \A i \in DOMAIN L : \E k \in DOMAIN search.rows :
                 L[i] = <<search.rows[k].sector, search.rows[k].content,
                          Score(search.rows[k])>>
           /\ \A k \in DOMAIN search.rows :
                 (/\ Score(search.rows[k]) > 0
                  /\ \A i \in DOMAIN L : L[i][1] # search.rows[k].sector)
                 => (Len(L) = 10 /\ Score(search.rows[k]) <= L[10][3])

\* A search over eleven rows with positive scores of both grades returned ten
\* of them, the best first, and left one out.
C6_Witness ==
    /\ search.pc = "done"
    /\ search.out.kind = "returned"
    /\ Len(search.rows) = 11
    /\ Len(search.out.value) = 10
    /\ search.out.value[1][3] = 8
    /\ search.out.value[10][3] = 5
    /\ search.rows[1].content = "b"
    /\ search.rows[11].content = "a"

\* C11: when the store is unavailable or the scan fails during
\* advanced_search, the search ends by returning the empty sequence; it never
\* ends by raising.
C11_SearchFailureReturnsEmpty ==
    search.pc = "done" =>
        /\ search.out.kind = "returned"
        /\ search.fault => search.out.value = <<>>

\* C12: while one request has its call of the External Refresh Client in
\* flight for a sector whose row is absent or stale, a second request for the
\* same sector that reaches the freshness check reads that row as it is,
\* and having read a row that is absent or stale by the clock it passes the
\* check and sends a call of its own: nothing makes it wait or skip.
C12_SecondRefreshNotPrevented ==
    \A t, u \in Tasks :
        /\ (/\ t # u
            /\ req[u].pc = "fetch_api"
            /\ req[t].pc = "select_last_update"
            /\ req[t].sector = req[u].sector
            /\ \/ store[req[t].sector] = None
               \/ Days(now - store[req[t].sector].last_update) > StaleDays)
           => ENABLED (/\ SelectLastUpdate(t)
                       /\ req'[t].pc = "should_fetch"
                       /\ req'[t].checked = store[req[t].sector]
                       /\ req'[u].pc = "fetch_api")
        /\ (/\ t # u
            /\ req[u].pc = "fetch_api"
            /\ req[t].pc = "should_fetch"
            /\ req[t].sector = req[u].sector
            /\ \/ req[t].checked = None
               \/ Days(now - req[t].checked.last_update) > StaleDays)
           => ENABLED (/\ ShouldFetch(t, TRUE)
                       /\ req'[t].pc = "fetch_api"
                       /\ req'[u].pc = "fetch_api")

\* Two requests for one sector with a stale row both passed the freshness
\* check and both have a call of the External Refresh Client in flight.
C12_Witness ==
    \E t, u \in Tasks :
        /\ t # u
        /\ req[t].sector = req[u].sector
        /\ req[t].pc = "fetch_api" /\ req[u].pc = "fetch_api"
        /\ req[t].api_calls = 1 /\ req[u].api_calls = 1
        /\ req[t].checked # None /\ req[u].checked = req[t].checked
        /\ req[t].age = (StaleDays + 1) * Day

\* C13: under every interleaving of requests, whether their refreshes succeed
\* or fail, every row of the store has a last_update that is a time, and a
\* sector that has a row keeps having one at every step.
C13_TopicsDatedAndKept ==
    /\ [](\A s \in Sectors : store[s] # None => store[s].last_update \in 0..now)
    /\ [][\A s \in Sectors : store[s] # None => store'[s] # None]_vars

\* One request has refreshed the row of a sector and ended, the refresh of a
\* second one for the same sector failed, and the row is there with the time
\* of the write.
C13_Witness ==
    \E t, u \in Tasks :
        /\ t # u
        /\ req[t].sector = req[u].sector
        /\ Done(t) /\ RefreshSucceeded(req[t].api)
        /\ Done(u) /\ RefreshFailed(u)
        /\ req[t].checked # None
        /\ writes = 1
        /\ store[req[t].sector] # None
        /\ store[req[t].sector].last_update = T0
        /\ store[req[t].sector].content = "c1"

\* The terminal states of a request: the return of line 130, of line 118 and
\* of line 133.
IsAnswered(t) ==
    Done(t) /\ req[t].out.kind = "returned" /\ req[t].out.value[1] = PlaceholderAnswer
IsNotFound(t) ==
    Done(t) /\ req[t].out.kind = "returned" /\ req[t].out.value[1] = NoInfoAnswer
IsErrored(t) ==
    Done(t) /\ req[t].out.kind = "returned"
            /\ Len(req[t].out.value[1]) >= Len(ErrorPrefix)
            /\ SubSeq(req[t].out.value[1], 1, Len(ErrorPrefix)) = ErrorPrefix

\* C14: a request sends at most one call to the External Refresh Client and
\* at most one to the Enrichment Client; while the refresh is under way the
\* topic has not been read and no enrichment call was sent; an enrichment call
\* is sent only after the topic was read; and a request that has ended is in
\* exactly one of ANSWERED, NOT_FOUND and ERRORED, one that has not is in none.
C14_OneRefreshOneEnrichmentOneEnd ==
    \A t \in Tasks :
        /\ req[t].api_calls <= 1
        /\ req[t].acad_calls <= 1
        /\ req[t].pc \in {"fetch_api", "upsert"} =>
              /\ req[t].api_calls = 1
              /\ req[t].read_at = -1
              /\ req[t].acad_calls = 0
        /\ req[t].api # Pending => req[t].api_calls = 1
        /\ req[t].acad_calls = 1 =>
              /\ req[t].read_at >= 0
              /\ req[t].topic # None
              /\ req[t].pc \in {"fetch_academic", "done"}
        /\ req[t].pc = "fetch_academic" => req[t].acad_calls = 1
        /\ Cardinality({k \in {"answered", "not_found", "errored"} :
                           \/ k = "answered" /\ IsAnswered(t)
                           \/ k = "not_found" /\ IsNotFound(t)
                           \/ k = "errored" /\ IsErrored(t)})
              = IF Done(t) THEN 1 ELSE 0

\* One request went through a refresh, the read of the topic and an
\* enrichment call, one call each, and ended ANSWERED; another one ended
\* ERRORED.
C14_Witness ==
    \E t, u \in Tasks :
        /\ IsAnswered(t)
        /\ req[t].api_calls = 1 /\ RefreshSucceeded(req[t].api)
        /\ req[t].acad_calls = 1
        /\ req[t].read_at = 1
        /\ IsErrored(u)

\* The place of a sector in the scan.
Position(rows, sector) == CHOOSE k \in DOMAIN rows : rows[k].sector = sector

\* C15: two results of advanced_search with the same score stand in the order
\* in which the scan yielded their rows, and when a row is cut off by the
\* limit of 10 no result with the same score comes from later in the scan.
C15_TiesKeepScanOrder ==
    (search.pc = "done" /\ search.out.kind = "returned") =>
        LET L == search.out.value
            rows == search.rows
            Score(row) == search.policy[row.content]
            In(k) == \E i \in DOMAIN L : L[i][1] = rows[k].sector
        IN /\ \A i, j \in DOMAIN L :
                 (i < j /\ L[i][3] = L[j][3])
                 => Position(rows, L[i][1]) < Position(rows, L[j][1])
           /\ \A k, m \in DOMAIN rows :
                 (/\ Score(rows[k]) > 0
                  /\ ~In(k)
                  /\ In(m)
                  /\ Score(rows[m]) = Score(rows[k]))
                 => m < k

\* Under the scoring of main.py, where every row scores the same, a search
\* over eleven rows returned the first ten of the scan in scan order.
C15_Witness ==
    /\ search.pc = "done"
    /\ search.out.kind = "returned"
    /\ search.policy = PlaceholderPolicy
    /\ Len(search.rows) = 11
    /\ Len(search.out.value) = Limit
    /\ \A i \in 1..Limit : search.out.value[i][1] = SectorName(i)
    /\ search.rows[1].content # search.rows[2].content

\* The failures of the External Refresh Client that line 102 catches: a
\* network error (ClientError), a status other than 200 (ValueError) and a
\* body that is not JSON (JSONDecodeError).
CaughtFailures ==
    {resp \in RefreshResponses : resp.kind \in {"client_error", "status", "bad_json"}}

\* The answers of the External Refresh Client with status 200 and a body that
\* parses.
GoodFetches == {resp \in RefreshResponses : resp.kind = "ok"}

\* C16: an entry under api_<sector> appears or changes only in the step in
\* which a call of the External Refresh Client for that sector is answered
\* with status 200 and a body that parses (the body null included), and then
\* holds that body for TTL; fetch_api_data meeting a network error, another
\* status or a body that is not JSON returns None with the cache as it was,
\* and the step in which it does leaves cache and store as they were; and an
\* entry of the cache goes away only by reaching its expiration.
C16_ApiEntryOnlyFromGoodFetch ==
    /\ [](\A s \in Sectors, resp \in CaughtFailures :
             FetchApiData(s, resp, cache, now) = [out |-> Returned(None), cache |-> cache])
    /\ [][/\ \A s \in Sectors :
                (cache'[ApiKey(s)] # None /\ cache'[ApiKey(s)] # cache[ApiKey(s)])
                => \E t \in Tasks, resp \in GoodFetches :
                      /\ req[t].pc = "fetch_api"
                      /\ req[t].sector = s
                      /\ req'[t].api.kind = "returned"
                      /\ FetchApi(t, resp)
                      /\ cache'[ApiKey(s)] =
                            [tag |-> "entry", val |-> JsonDumps(resp.data),
                             exp |-> now + TTL]
          /\ \A t \in Tasks, resp \in CaughtFailures :
                (/\ req[t].pc = "fetch_api"
                 /\ req'[t].api.kind = "returned"
                 /\ FetchApi(t, resp))
                => /\ req'[t].api.value = None
                   /\ cache' = cache
                   /\ store' = store
          /\ \A k \in Keys :
                (cache[k] # None /\ cache'[k] = None) => cache[k].exp <= now'
         ]_vars

\* One call for a sector ended with status 200 and its document is cached for
\* TTL; the call of another request for the same sector failed and returned
\* None, and the entry is in place.
C16_Witness ==
    \E t, u \in Tasks :
        /\ t # u
        /\ req[t].sector = req[u].sector
        /\ req[t].api.kind = "returned" /\ req[t].api.value = GoodPayload
        /\ req[u].api.kind = "returned" /\ req[u].api.value = None
        /\ req[u].pc = "select_topic"
        /\ req[t].pc = "upsert"
        /\ cache[ApiKey(req[t].sector)] =
              [tag |-> "entry", val |-> JsonDumps(GoodPayload), exp |-> T0 + TTL]
        /\ store[req[t].sector] = None

\* C17: however startup_event and the requests interleave in get_engine,
\* init_async_db runs at most once, every call of get_engine that has ended
\* has given its caller an engine, and all callers hold the same one, the one
\* the process keeps.
C17_EngineCreatedOnce ==
    /\ created <= 1
    /\ startup # "raised"
    /\ \A t \in Tasks :
          /\ req[t].engine # None => req[t].engine = async_engine
          /\ req[t].pc \in {"select_last_update", "should_fetch", "select_topic",
                           "use_topic", "done"}
                => req[t].engine # None
    /\ search.engine # None => search.engine = async_engine

\* C18: every step of a request with offline_mode true, from its arrival to
\* its return, whether it ends ANSWERED, NOT_FOUND or ERRORED, leaves the
\* store and every entry of the cache as they were.
C18_OfflineChangesNothing ==
    [][\A t \in Tasks :
          (req'[t] # req[t] /\ req'[t].offline)
          => (store' = store /\ cache' = cache /\ writes' = writes)
      ]_vars

\* A request with offline_mode true ended ANSWERED and another one ERRORED,
\* and neither the store nor the cache has been written.
C18_Witness ==
    \E t, u \in Tasks :
        /\ req[t].offline /\ IsAnswered(t)
        /\ req[u].offline /\ IsErrored(u)
        /\ writes = 0
        /\ \A k \in Keys : cache[k] = None
        /\ store[req[t].sector] = req[t].topic

\* C19: a request that ended ANSWERED returns as link the further_reading of
\* the row it read from the store; a request that ended NOT_FOUND or ERRORED
\* returns the link None; so a link that is not None comes only with ANSWERED.
C19_LinkOnlyWhenAnswered ==
    \A t \in Tasks :
        Done(t) =>
            /\ IsAnswered(t) =>
                  /\ req[t].topic # None
                  /\ req[t].out.value[2] = req[t].topic.further_reading
            /\ (IsNotFound(t) \/ IsErrored(t)) => req[t].out.value[2] = None
            /\ req[t].out.value[2] # None => IsAnswered(t)

\* A request ended ANSWERED with the link of the row its refresh had just
\* written, another ended ERRORED on malformed enrichment data with link None
\* although it had read a row with a link.
C19_Witness ==
    \E t, u \in Tasks :
        /\ IsAnswered(t)
        /\ req[t].checked # None
        /\ req[t].checked.further_reading = Str("http://old")
        /\ req[t].topic.further_reading = Str("http://x")
        /\ req[t].out.value[2] = Str("http://x")
        /\ IsErrored(u)
        /\ req[u].topic # None
        /\ req[u].out.value[2] = None

\* C20: the route returns one result for each result of advanced_search, in
\* the same order, with the same sector and score; its content is the
\* topic's content when that has at most 200 characters, and otherwise the
\* first 200 characters of it followed by "...".
C20_RouteSnippet ==
    (search.pc = "done" /\ search.out.kind = "returned") =>
        LET L == search.out.value
            R == search.response
        IN /\ Len(R) = Len(L)
           /\ \A i \in DOMAIN L :
                 /\ R[i].sector = L[i][1]
                 /\ R[i].score = L[i][3]
                 /\ Len(L[i][2]) <= 200 => R[i].content = L[i][2]
                 /\ Len(L[i][2]) > 200 =>
                       /\ Len(R[i].content) = 203
                       /\ \A k \in 1..200 :
                             SubSeq(R[i].content, k, k) = SubSeq(L[i][2], k, k)
                       /\ SubSeq(R[i].content, 201, 203) = "..."

\* A search over a content of 201 characters, one of 200 and an empty one:
\* the route returned them best score first, the first cut to 200 characters
\* and "...", the others whole.
C20_Witness ==
    /\ search.pc = "done"
    /\ search.out.kind = "returned"
    /\ Len(search.response) = 3
    /\ search.response[1].sector = "s2"
    /\ search.response[1].score = 8
    /\ search.response[1].content = Text(SnippetLen)
    /\ search.response[2].sector = "s1"
    /\ search.response[2].score = 5
    /\ search.response[2].content = Text(SnippetLen) \o "..."
    /\ search.rows[1].content = Text(SnippetLen + 1)
    /\ search.response[3].content = ""

====
